---- MODULE Spec2Model ----
(***************************************************************************)
(* Model of mlpack's LoadCSV (src/mlpack/core/data/load_csv.hpp): the      *)
(* constructor's delimiter choice, the two dimension-discovery passes      *)
(* (GetMatrixSize, GetTransposeMatrixSize) and the two population passes   *)
(* (NonTransposeParse, TransposeParse), with the quote re-assembly loop    *)
(* that all four share.  Strings are sequences of one-character strings.   *)
(***************************************************************************)
EXTENDS Integers, Sequences, FiniteSets, TLC

\* ------------------------------------------------------------------ bounds
\* Longest file content (in characters) drawn over the comma alphabet.
MaxChars == 6
\* Longest file content drawn over the tab/space alphabet.
MaxExtChars == 4
\* Largest pre-set mapper dimensionality drawn for the general files.
MaxDim == 2
\* Longest re-assembled token the diverging quote loop is followed to.
MaxTok == 8

\* -------------------------------------------------------------- characters
Quote == "\""
Comma == ","
Tab == "\t"
Space == " "
Newline == "\n"
Plain == "a"

Whitespace == {Space, Tab, Newline}

CsvAlphabet == {Plain, Quote, Comma, Newline}
ExtAlphabet == {Plain, Tab, Space, Newline}

Extensions == {"csv", "tsv", "txt", "dat"}

SeqsUpTo(S, n) == UNION {[1..k -> S] : k \in 0..n}

\* The quoting example of the specification: "1,2",3
QuoteExample == <<Quote, "1", Comma, "2", Quote, Comma, "3">>
\* A file of four one-field lines.
FourLines == <<Plain, Newline, Plain, Newline, Plain, Newline, Plain>>
\* A quoted field holding two delimiters in a row: "a,,a"
EmptyPieceExample == <<Quote, Plain, Comma, Comma, Plain, Quote>>

ExampleFiles == {QuoteExample, FourLines, EmptyPieceExample}

\* ----------------------------------------------------------------- helpers
MinOf(S) == CHOOSE i \in S : \A j \in S : i <= j
MaxOf(S) == CHOOSE i \in S : \A j \in S : i >= j

\* std::getline(stream, str, d) on a stream holding s, next character at pos
\* (1-based): str is the characters up to the next d (which is consumed);
\* without a d the rest is read and eofbit is set; failbit when nothing at all
\* was extracted.
GetLine(s, pos, d) ==
  LET I == {i \in pos..Len(s) : s[i] = d}
  IN  IF I # {}
      THEN [str |-> SubSeq(s, pos, MinOf(I) - 1), next |-> MinOf(I) + 1,
            eof |-> FALSE, fail |-> FALSE]
      ELSE [str |-> SubSeq(s, pos, Len(s)), next |-> Len(s) + 1,
            eof |-> TRUE, fail |-> pos > Len(s)]

\* trim(): strips leading and trailing whitespace.
Trim(s) ==
  LET N == {i \in 1..Len(s) : s[i] \notin Whitespace}
  IN  IF N = {} THEN <<>> ELSE SubSeq(s, MinOf(N), MaxOf(N))

\* token[0] == '"' && token[token.size() - 1] != '"'.  token[0] of an empty
\* std::string is the terminating null, so the conjunction is false for it.
NeedsJoin(t) == Len(t) > 0 /\ t[1] = Quote /\ t[Len(t)] # Quote

\* The lines std::getline yields from a whole file content, in order.
RECURSIVE LinesFrom(_, _)
LinesFrom(s, pos) ==
  LET g == GetLine(s, pos, Newline)
  IN  IF g.fail THEN <<>> ELSE <<g.str>> \o LinesFrom(s, g.next)

FileLines(s) == LinesFrom(s, 1)

\* while (std::getline(inFile, line)) ++rows;
CountLines(s) == Len(FileLines(s))

\* The delimiter the constructor leaves in `delim`: csv, tsv and txt assign
\* it; for any other extension no branch assigns the member, and reading it
\* yields an indeterminate character.
DelimChoices(ext) ==
  IF ext = "csv" THEN {Comma}
  ELSE IF ext = "tsv" THEN {Tab}
  ELSE IF ext = "txt" THEN {Space}
  ELSE {Comma, Tab, Space, Plain}

\* The dimensionality test with a mismatch noticed only when the data is
\* larger than the mapper.
DimensionalityCheckLess(d, n) ==
  IF d = 0 THEN "set" ELSE IF d < n THEN "mismatch" ELSE "keep"

\* The dimensionality test of the discovery passes: "set" when the mapper has
\* dimensionality 0, "mismatch" when it differs from n, "keep" otherwise.
DimensionalityCheck(d, n) ==
  IF d = 0 THEN "set" ELSE IF d # n THEN "mismatch" ELSE "keep"

\* The rewind without the reset of rows.
RewindRowsKept(r) == r

\* rows = 0 after the rewind that precedes the second loop of GetMatrixSize.
RewindRows(r) == 0

\* if (rows == 1) / if (cols == 1): the line on which the other axis is read.
IsFirstLine(n) == n = 1

\* ---- the tokenizer of the specification (4.1), used by GetNonNumericMatSize
\* Pieces of a line between delimiters.
RECURSIVE PiecesFrom(_, _, _)
PiecesFrom(s, pos, d) ==
  LET g == GetLine(s, pos, d)
  IN  IF g.eof THEN <<g.str>> ELSE <<g.str>> \o PiecesFrom(s, g.next, d)

Pieces(s, d) == PiecesFrom(s, 1, d)

\* Number of pieces a quoted group starting at piece i takes: up to and
\* including the first later piece ending in a quote, or all that are left.
RECURSIVE GroupEnd(_, _)
GroupEnd(ps, j) ==
  IF j > Len(ps) THEN Len(ps)
  ELSE IF Len(ps[j]) > 0 /\ ps[j][Len(ps[j])] = Quote THEN j
  ELSE GroupEnd(ps, j + 1)

RECURSIVE JoinPieces(_, _, _, _)
JoinPieces(ps, i, j, d) ==
  IF i > j THEN <<>>
  ELSE IF i = j THEN ps[i]
  ELSE ps[i] \o <<d>> \o JoinPieces(ps, i + 1, j, d)

RECURSIVE TokensFrom(_, _, _)
TokensFrom(ps, i, d) ==
  IF i > Len(ps) THEN <<>>
  ELSE LET t == Trim(ps[i])
       IN  IF NeedsJoin(t)
           THEN LET e == GroupEnd(ps, i + 1)
                IN  <<JoinPieces(<<t>> \o SubSeq(ps, i + 1, e), 1, e - i + 1, d)>>
                      \o TokensFrom(ps, e + 1, d)
           ELSE <<t>> \o TokensFrom(ps, i + 1, d)

SpecTokens(l, d) == TokensFrom(Pieces(l, d), 1, d)

\* GetNonNumericMatSize(inFile, delim).second: the field count of the first
\* data-bearing line of the file, 0 when there is none.
GetNonNumericMatSize(s, d) ==
  LET ls == FileLines(s)
      N == {i \in 1..Len(ls) : Trim(ls[i]) # <<>>}
  IN  IF N = {} THEN 0 ELSE Len(SpecTokens(Trim(ls[MinOf(N)]), d))

\* ------------------------------------------------------------------- state
VARIABLES
  extension,       \* Extension(file)
  isOpen,          \* inFile.is_open()
  content,         \* the characters of the file
  transpose,       \* Load()'s transpose argument
  needsFirstPass,  \* MapPolicy::NeedsFirstPass
  dimIn,           \* info.Dimensionality() when Load is called
  dim,             \* info.Dimensionality()
  delim,           \* LoadCSV::delim
  pc,              \* position in the load
  fpos,            \* read position of inFile (1-based)
  rows, cols,      \* the locals GetMatrixSize fills
  row, col,        \* the write cursor of the population pass
  dimIdx,          \* GetTransposeMatrixSize's local `dim`
  line,            \* the current (trimmed) line
  lsPos, lsGood,   \* line_stream: read position and good()
  token, tok,      \* the tokenizer's locals
  sized,           \* number of inout.set_size calls
  mRows, mCols,    \* the size given to set_size
  written,         \* the in-bounds cells assigned so far
  oob,             \* the cells assigned outside the bounds
  ubIndex,         \* token[token.size() - 1] was evaluated on an empty token
  fpLog,           \* the MapFirstPass calls: <<token, position>>
  msLog,           \* the MapString calls: <<token, position>>
  fpAfterMs,       \* a MapFirstPass call was made after a MapString call
  err              \* the error thrown: <<kind, ...>>, <<>> when none

inputs == <<extension, isOpen, content, transpose, needsFirstPass, dimIn>>
stream == <<line, lsPos, lsGood, token, tok, ubIndex>>
matrix == <<sized, mRows, mCols, written, oob>>
logs == <<fpLog, msLog, fpAfterMs>>
vars == <<extension, isOpen, content, transpose, needsFirstPass, dimIn, dim,
          delim,
          pc, fpos, rows, cols, row, col, dimIdx, line, lsPos, lsGood, token,
          tok, sized, mRows, mCols, written, oob, ubIndex, fpLog, msLog,
          fpAfterMs, err>>

\* ---------------------------------------------------------------- initial
\* State before the constructor runs.  `delim` holds no value yet ("unset").
InitLocals ==
  /\ dimIn = dim
  /\ delim = "unset" /\ pc = "new" /\ fpos = 1
  /\ rows = 0 /\ cols = 0 /\ row = 0 /\ col = 0 /\ dimIdx = 0
  /\ line = <<>> /\ lsPos = 1 /\ lsGood = FALSE
  /\ token = <<>> /\ tok = <<>>
  /\ sized = 0 /\ mRows = 0 /\ mCols = 0 /\ written = {} /\ oob = {}
  /\ ubIndex = FALSE /\ fpLog = <<>> /\ msLog = <<>> /\ fpAfterMs = FALSE
  /\ err = <<>>

\* Comma-separated files of every shape up to MaxChars characters.
InitCsv ==
  /\ extension = "csv" /\ isOpen = TRUE
  /\ content \in SeqsUpTo(CsvAlphabet, MaxChars)
  /\ transpose \in BOOLEAN /\ needsFirstPass \in BOOLEAN
  /\ dim \in 0..MaxDim

\* The named example files, also with the mapper pre-set to 5.
InitExamples ==
  /\ extension = "csv" /\ isOpen = TRUE
  /\ content \in ExampleFiles
  /\ transpose \in BOOLEAN /\ needsFirstPass \in BOOLEAN
  /\ dim \in {0, 4, 5}

\* Every extension, on files over tabs and spaces; also a file that cannot
\* be opened.
InitExt ==
  /\ extension \in Extensions /\ isOpen \in BOOLEAN
  /\ content \in SeqsUpTo(ExtAlphabet, MaxExtChars)
  /\ transpose \in BOOLEAN /\ needsFirstPass = TRUE
  /\ dim = 0

Init == (InitCsv \/ InitExamples \/ InitExt) /\ InitLocals

\* ----------------------------------------------------------------- actions
\* LoadCSV::LoadCSV(const std::string& file): the delimiter, then CheckOpen().
Construct ==
  /\ pc = "new"
  /\ \E d \in DelimChoices(extension) : delim' = d
  /\ IF isOpen
     THEN pc' = "constructed" /\ err' = err
     ELSE pc' = "failed" /\ err' = <<"open">>
  /\ UNCHANGED <<inputs, dim, fpos, rows, cols, row, col, dimIdx, stream,
                 matrix, logs>>

\* LoadCSV::Load: CheckOpen(), then the orientation's parse, which starts
\* with its discovery pass (stream rewound, rows and cols zeroed).
Load ==
  /\ pc = "constructed"
  /\ IF isOpen
     THEN pc' = (IF transpose THEN "gtms_line" ELSE "gms_count") /\ err' = err
     ELSE pc' = "failed" /\ err' = <<"open">>
  /\ fpos' = 1 /\ rows' = 0 /\ cols' = 0
  /\ UNCHANGED <<inputs, dim, delim, row, col, dimIdx, stream, matrix, logs>>

\* GetMatrixSize, first loop and the two dimensionality blocks, then the
\* rewind.
GMS_Count ==
  /\ pc = "gms_count"
  /\ LET n == CountLines(content)
         c1 == DimensionalityCheck(dim, n)
         d1 == IF c1 = "set" THEN n ELSE dim
         c2 == DimensionalityCheck(d1, n)
         d2 == IF c2 = "set" THEN n ELSE d1
     IN  IF c1 = "mismatch" \/ c2 = "mismatch"
         THEN /\ pc' = "failed"
              /\ err' = <<"dimensionality", dim, n>>
              /\ rows' = n
              /\ UNCHANGED <<dim, fpos>>
         ELSE /\ pc' = "gms_line"
              /\ dim' = d2
              /\ rows' = RewindRows(n)
              /\ fpos' = 1
              /\ err' = err
  /\ UNCHANGED <<inputs, delim, cols, row, col, dimIdx, stream, matrix, logs>>

\* GetMatrixSize, one iteration of the second loop up to the token loop.
GMS_Line ==
  /\ pc = "gms_line"
  /\ LET g == GetLine(content, fpos, Newline)
         l == Trim(g.str)
     IN  IF g.fail
         THEN /\ pc' = "ntp_size"
              /\ UNCHANGED <<fpos, rows, cols, line, lsPos, lsGood, token>>
         ELSE /\ fpos' = g.next
              /\ line' = l
              /\ rows' = rows + 1
              /\ cols' = IF IsFirstLine(rows + 1)
                         THEN GetNonNumericMatSize(content, delim)
                         ELSE cols
              /\ IF needsFirstPass
                 THEN IF l = <<>>
                      THEN pc' = "ntp_size" /\ UNCHANGED <<lsPos, lsGood, token>>
                      ELSE /\ pc' = "gms_tok"
                           /\ lsPos' = 1 /\ lsGood' = TRUE /\ token' = <<>>
                 ELSE pc' = "gms_line" /\ UNCHANGED <<lsPos, lsGood, token>>
  /\ UNCHANGED <<inputs, dim, delim, row, col, dimIdx, tok, ubIndex, matrix,
                 logs, err>>

\* info.template MapFirstPass<T>(std::move(token), rows - 1);
GMS_Emit(t, good) ==
  /\ fpLog' = Append(fpLog, <<t, rows - 1>>)
  /\ fpAfterMs' = (fpAfterMs \/ msLog # <<>>)
  /\ pc' = (IF good THEN "gms_tok" ELSE "gms_line")
  /\ UNCHANGED <<msLog, row, col, dimIdx, matrix, err>>

\* GetTransposeMatrixSize, one iteration of the loop up to the token loop.
GTMS_Line ==
  /\ pc = "gtms_line"
  /\ LET g == GetLine(content, fpos, Newline)
         l == Trim(g.str)
         r == GetNonNumericMatSize(content, delim)
         c == DimensionalityCheck(dim, r)
     IN  IF g.fail
         THEN /\ pc' = "tp_size"
              /\ UNCHANGED <<fpos, rows, cols, dim, dimIdx, line, lsPos,
                             lsGood, token, err>>
         ELSE /\ fpos' = g.next
              /\ line' = l
              /\ cols' = cols + 1
              /\ rows' = (IF IsFirstLine(cols + 1) THEN r ELSE rows)
              /\ IF IsFirstLine(cols + 1) /\ c = "mismatch"
                 THEN /\ pc' = "failed"
                      /\ err' = <<"dimensionality", dim, r>>
                      /\ UNCHANGED <<dim, dimIdx, lsPos, lsGood, token>>
                 ELSE /\ dim' = (IF IsFirstLine(cols + 1) /\ c = "set"
                                 THEN r ELSE dim)
                      /\ err' = err
                      /\ IF needsFirstPass
                         THEN /\ dimIdx' = 0
                              /\ IF l = <<>>
                                 THEN /\ pc' = "tp_size"
                                      /\ UNCHANGED <<lsPos, lsGood, token>>
                                 ELSE /\ pc' = "gtms_tok"
                                      /\ lsPos' = 1 /\ lsGood' = TRUE
                                      /\ token' = <<>>
                         ELSE /\ pc' = "gtms_line"
                              /\ UNCHANGED <<dimIdx, lsPos, lsGood, token>>
  /\ UNCHANGED <<inputs, delim, row, col, tok, ubIndex, matrix, logs>>

\* info.template MapFirstPass<T>(std::move(token), dim++);
GTMS_Emit(t, good) ==
  /\ fpLog' = Append(fpLog, <<t, dimIdx>>)
  /\ fpAfterMs' = (fpAfterMs \/ msLog # <<>>)
  /\ dimIdx' = dimIdx + 1
  /\ pc' = (IF good THEN "gtms_tok" ELSE "gtms_line")
  /\ UNCHANGED <<msLog, row, col, matrix, err>>

\* inout(r, c) = value.  Inside the size given to set_size the cell is
\* assigned.  Outside it, a bounds-checking build throws from the element
\* access and a build without the check assigns outside the matrix.
Assign(r, c, next) ==
  IF r < mRows /\ c < mCols
  THEN /\ written' = written \cup {<<r, c>>}
       /\ pc' = next
       /\ UNCHANGED <<oob, err>>
  ELSE \/ /\ pc' = "failed"
          /\ err' = <<"bounds", r, c>>
          /\ UNCHANGED <<written, oob>>
       \/ /\ oob' = oob \cup {<<r, c>>}
          /\ pc' = next
          /\ UNCHANGED <<written, err>>

\* inout.set_size(rows, cols); the cursor and the stream are reset.
SetSize(next) ==
  /\ sized' = sized + 1
  /\ mRows' = rows /\ mCols' = cols
  /\ written' = {} /\ oob' = oob
  /\ row' = 0 /\ col' = 0
  /\ fpos' = 1
  /\ pc' = next
  /\ UNCHANGED <<inputs, dim, delim, rows, cols, dimIdx, stream, logs, err>>

NTP_Size == pc = "ntp_size" /\ SetSize("ntp_line")

\* NonTransposeParse, one iteration of the line loop up to the token loop.
NTP_Line ==
  /\ pc = "ntp_line"
  /\ LET g == GetLine(content, fpos, Newline)
         l == Trim(g.str)
     IN  IF g.fail
         THEN /\ pc' = "done"
              /\ UNCHANGED <<fpos, line, lsPos, lsGood, token>>
         ELSE /\ fpos' = g.next
              /\ line' = l
              /\ IF l = <<>>
                 THEN pc' = "done" /\ UNCHANGED <<lsPos, lsGood, token>>
                 ELSE /\ pc' = "ntp_tok"
                      /\ lsPos' = 1 /\ lsGood' = TRUE /\ token' = <<>>
  /\ UNCHANGED <<inputs, dim, delim, rows, cols, row, col, dimIdx, tok,
                 ubIndex, matrix, logs, err>>

\* inout(row, col++) = infoSet.template MapString<T>(std::move(token), row);
\* (The `if (token == "\t") token.clear();` before getline has no effect:
\* getline replaces the token.)
NTP_Emit(t, good) ==
  /\ msLog' = Append(msLog, <<t, row>>)
  /\ Assign(row, col, IF good THEN "ntp_tok" ELSE "ntp_check")
  /\ col' = col + 1
  /\ UNCHANGED <<fpLog, fpAfterMs, row, dimIdx, sized, mRows, mCols>>

\* if (col != cols) throw ...; ++row; col = 0;
NTP_Check ==
  /\ pc = "ntp_check"
  /\ IF col # cols
     THEN /\ pc' = "failed"
          /\ err' = <<"wrong_dimensions", row, col, cols>>
          /\ UNCHANGED <<row, col>>
     ELSE /\ pc' = "ntp_line"
          /\ row' = row + 1 /\ col' = 0
          /\ err' = err
  /\ UNCHANGED <<inputs, dim, delim, fpos, rows, cols, dimIdx, stream, matrix,
                 logs>>

TP_Size == pc = "tp_size" /\ SetSize("tp_line")

\* TransposeParse, one iteration of the line loop up to the token loop.
TP_Line ==
  /\ pc = "tp_line"
  /\ LET g == GetLine(content, fpos, Newline)
         l == Trim(g.str)
     IN  IF g.fail
         THEN /\ pc' = "done"
              /\ UNCHANGED <<fpos, line, row, lsPos, lsGood, token>>
         ELSE /\ fpos' = g.next
              /\ line' = l
              /\ row' = 0
              /\ IF l = <<>>
                 THEN pc' = "done" /\ UNCHANGED <<lsPos, lsGood, token>>
                 ELSE /\ pc' = "tp_tok"
                      /\ lsPos' = 1 /\ lsGood' = TRUE /\ token' = <<>>
  /\ UNCHANGED <<inputs, dim, delim, rows, cols, col, dimIdx, tok, ubIndex,
                 matrix, logs, err>>

\* inout(row, col) = infoSet.template MapString<T>(std::move(token), row);
\* row++;
TP_Emit(t, good) ==
  /\ msLog' = Append(msLog, <<t, row>>)
  /\ Assign(row, col, IF good THEN "tp_tok" ELSE "tp_check")
  /\ row' = row + 1
  /\ UNCHANGED <<fpLog, fpAfterMs, col, dimIdx, sized, mRows, mCols>>

\* The hook call and what follows it, in the function the load is in.
Emit(t, good) ==
  IF pc \in {"gms_tok", "gms_join"} THEN GMS_Emit(t, good)
  ELSE IF pc \in {"gtms_tok", "gtms_join"} THEN GTMS_Emit(t, good)
  ELSE IF pc \in {"ntp_tok", "ntp_join"} THEN NTP_Emit(t, good)
  ELSE TP_Emit(t, good)

\* One pass of `while (line_stream.good())` up to the quote test: getline on
\* the delimiter, trim, then either the re-assembly loop or the hook.
TokenStep(here, join) ==
  /\ pc = here
  /\ LET g == GetLine(line, lsPos, delim)
         t == Trim(g.str)
     IN  /\ lsPos' = g.next
         /\ lsGood' = ~g.eof
         /\ token' = t
         /\ IF NeedsJoin(t)
            THEN /\ tok' = t
                 /\ pc' = join
                 /\ UNCHANGED <<row, col, dimIdx, matrix, logs, err>>
            ELSE /\ tok' = tok
                 /\ Emit(t, ~g.eof)
  /\ UNCHANGED <<inputs, dim, delim, fpos, rows, cols, line, ubIndex>>

\* tok += delim; std::getline(line_stream, token, delim); tok += token;
\* On a stream that is no longer good() getline extracts nothing and leaves
\* token as it was.
JoinBody ==
  /\ lsGood \/ Len(tok) < MaxTok
  /\ LET g == GetLine(line, lsPos, delim)
         nt == IF lsGood THEN g.str ELSE token
     IN  /\ token' = nt
         /\ tok' = tok \o <<delim>> \o nt
         /\ lsPos' = (IF lsGood THEN g.next ELSE lsPos)
         /\ lsGood' = (lsGood /\ ~g.eof)
  /\ UNCHANGED <<pc, row, col, dimIdx, matrix, logs, err>>

\* token = tok; then the hook.
JoinExit ==
  /\ token' = tok
  /\ UNCHANGED <<tok, lsPos, lsGood>>
  /\ Emit(tok, lsGood)

\* `while (token[token.size() - 1] != '"')`: one evaluation of the test and
\* what follows it.  On an empty token the index is size_t(-1): the read is
\* out of range, and the build may abort, or read a quote, or read anything
\* else.
JoinStep(here) ==
  /\ pc = here
  /\ \/ /\ token = <<>>
        /\ ubIndex' = TRUE
        /\ \/ /\ pc' = "crashed"
              /\ UNCHANGED <<token, tok, lsPos, lsGood, row, col, dimIdx,
                             matrix, logs, err>>
           \/ JoinExit
           \/ JoinBody
     \/ /\ token # <<>>
        /\ token[Len(token)] # Quote
        /\ ubIndex' = ubIndex
        /\ JoinBody
     \/ /\ token # <<>>
        /\ token[Len(token)] = Quote
        /\ ubIndex' = ubIndex
        /\ JoinExit
  /\ UNCHANGED <<inputs, dim, delim, fpos, rows, cols, line>>

GMS_Token == TokenStep("gms_tok", "gms_join")
GMS_Join == JoinStep("gms_join")

GTMS_Token == TokenStep("gtms_tok", "gtms_join")
GTMS_Join == JoinStep("gtms_join")

NTP_Token == TokenStep("ntp_tok", "ntp_join")
NTP_Join == JoinStep("ntp_join")

TP_Token == TokenStep("tp_tok", "tp_join")
TP_Join == JoinStep("tp_join")

\* if (row != rows) throw ...; ++col;
TP_Check ==
  /\ pc = "tp_check"
  /\ IF row # rows
     THEN /\ pc' = "failed"
          /\ err' = <<"wrong_dimensions", col, row, rows>>
          /\ UNCHANGED <<row, col>>
     ELSE /\ pc' = "tp_line"
          /\ col' = col + 1
          /\ UNCHANGED <<row, err>>
  /\ UNCHANGED <<inputs, dim, delim, fpos, rows, cols, dimIdx, stream, matrix,
                 logs>>

Next ==
  \/ Construct
  \/ Load
  \/ GMS_Count
  \/ GMS_Line
  \/ GMS_Token
  \/ GMS_Join
  \/ GTMS_Line
  \/ GTMS_Token
  \/ GTMS_Join
  \/ NTP_Size
  \/ NTP_Line
  \/ NTP_Token
  \/ NTP_Join
  \/ NTP_Check
  \/ TP_Size
  \/ TP_Line
  \/ TP_Token
  \/ TP_Join
  \/ TP_Check

Spec == Init /\ [][Next]_vars

\* ------------------------------------------------------------ claim terms
JoinPcs == {"gms_join", "gtms_join", "ntp_join", "tp_join"}

\* The trimmed lines of the file that a pass reads: those before the first
\* empty one.
RECURSIVE DataLinesFrom(_, _)
DataLinesFrom(ls, i) ==
  IF i > Len(ls) \/ Trim(ls[i]) = <<>> THEN <<>>
  ELSE <<Trim(ls[i])>> \o DataLinesFrom(ls, i + 1)

DataLines == DataLinesFrom(FileLines(content), 1)

\* The tokens of the last k MapString calls.
LastTokens(k) == [i \in 1..k |-> msLog[Len(msLog) - k + i][1]]

\* All cells of the sized matrix.
AllCells == (0..(mRows - 1)) \X (0..(mCols - 1))

\* The hook calls the words of 4.3 and 4.4 describe: every token of every
\* line before the first empty one, with the line index (non-transposed) or
\* the field index (transposed).
CallsOfLine(l, i) ==
  LET ts == SpecTokens(l, delim)
  IN  [k \in 1..Len(ts) |-> <<ts[k], IF transpose THEN k - 1 ELSE i - 1>>]

RECURSIVE CallsFrom(_, _)
CallsFrom(ls, i) ==
  IF i > Len(ls) THEN <<>> ELSE CallsOfLine(ls[i], i) \o CallsFrom(ls, i + 1)

ExpectedCalls == CallsFrom(DataLines, 1)

\* Every line is data-bearing and has as many fields as the first.
WellFormed ==
  LET ls == FileLines(content)
  IN  /\ Len(ls) > 0
      /\ \A i \in 1..Len(ls) :
           /\ Trim(ls[i]) # <<>>
           /\ Len(SpecTokens(Trim(ls[i]), delim))
                = Len(SpecTokens(Trim(ls[1]), delim))

\* The axis length discovery compares the mapper with.
AxisLength == IF transpose THEN rows ELSE CountLines(content)

DiscoveryReturned == pc \in {"ntp_size", "tp_size"}

DimensionalityRule ==
  /\ DiscoveryReturned =>
       /\ dimIn = 0 => dim = AxisLength
       /\ dimIn # 0 => dimIn = AxisLength /\ dim = dimIn
  /\ (pc = "failed" /\ err # <<>> /\ err[1] = "dimensionality") =>
       /\ err = <<"dimensionality", dimIn, AxisLength>>
       /\ dimIn # 0 /\ dimIn # AxisLength

\* ------------------------------------------------------------------ claims
\* C1: in NonTransposeParse a line whose field count differs from cols fails
\* the load with the wrong-dimension error naming the zero-based line index
\* and both counts, and no later line is processed: the population pass fails
\* with no other error, and it is past a line only if every line before had
\* exactly cols fields.  Stated for the runs in which the quote loop never
\* indexed an empty token.
C1_WrongFieldCount ==
  (~transpose /\ sized = 1 /\ ~ubIndex) =>
    /\ pc = "failed" =>
         /\ err = <<"wrong_dimensions", row, col, cols>>
         /\ col # cols
         /\ row + 1 <= Len(DataLines)
         /\ Len(SpecTokens(DataLines[row + 1], delim)) = col
    /\ \A i \in 1..row :
         i <= Len(DataLines) /\ Len(SpecTokens(DataLines[i], delim)) = cols

\* C2 as stated: in either orientation, after discovery the mapper's
\* dimensionality is the discovered axis length when it was 0, is unchanged
\* and equal to it otherwise, and a non-zero different value fails the load
\* with an error reporting both values.
C2_AnyFile == DimensionalityRule

\* C2 amended: the same, in transposed mode for files with at least one
\* line (the test is made on the first line read).
C2_Dimensionality ==
  (transpose => CountLines(content) > 0) => DimensionalityRule

\* C2 witness: the 4-line file loaded non-transposed into a mapper pre-set
\* to 5 has failed naming 5 and 4.
C2_Witness ==
  /\ ~transpose /\ content = FourLines
  /\ pc = "failed" /\ err = <<"dimensionality", 5, 4>>

C4_FullyPopulated ==
  (/\ pc = "done"
   /\ CountLines(content) > 0 /\ Trim(FileLines(content)[1]) # <<>>
   /\ ~ubIndex /\ oob = {}) =>
    /\ sized = 1 /\ mRows = rows /\ mCols = cols
    /\ written = AllCells

\* C5: whenever GetMatrixSize returns, the mapper's dimensionality equals
\* the rows value it returns.
C5_DimensionalityIsRows == pc = "ntp_size" => dim = rows

\* C6: once constructed the delimiter is comma for csv, tab for tsv and a
\* single space for every other extension, and stays so.  Stated for the
\* loaders whose file opened.
C6_DelimiterFromExtension ==
  (pc # "new" /\ isOpen) =>
    delim = (IF extension = "csv" THEN Comma
             ELSE IF extension = "tsv" THEN Tab ELSE Space)

\* C7: the tokens handed to MapString for a line are the line's pieces with
\* every quoted group (a trimmed piece beginning with a quote and not ending
\* with one, up to and including the first piece ending with a quote) joined
\* by the delimiter into one token.
C7_QuotedGroupsJoined ==
  /\ pc = "ntp_check" => LastTokens(col) = SpecTokens(line, delim)
  /\ pc = "tp_check" => LastTokens(row) = SpecTokens(line, delim)

\* C8: when the pieces of a line are exhausted with no closing quote the
\* re-assembly stops and the load fails with an unterminated-quote error,
\* and the loop test never indexes an empty string.
C8_UnterminatedQuoteFails ==
  /\ [][(pc \in JoinPcs /\ ~lsGood /\ token # <<>>
           /\ token[Len(token)] # Quote)
          => (pc' = "failed" /\ err' # <<>> /\ err'[1] = "unterminated_quote")]_vars
  /\ [](~ubIndex)

\* C9: with NeedsFirstPass, discovery calls MapFirstPass once per token of
\* every line before the first empty line, in file order, with the line index
\* (non-transposed) or field index (transposed), all before the first
\* MapString call; without NeedsFirstPass it is never called.
C9_FirstPassCalls ==
  /\ ~needsFirstPass => fpLog = <<>>
  /\ ~fpAfterMs
  /\ (DiscoveryReturned /\ needsFirstPass) => fpLog = ExpectedCalls
  /\ msLog # <<>> => (needsFirstPass => fpLog = ExpectedCalls)

\* C10: every assignment of the population pass is inside the bounds given
\* to set_size; a wrong field count is detected before any cell outside them
\* is written.  Stated for the runs in which the quote loop never indexed an
\* empty token.
C10_WritesInBounds ==
  ~ubIndex =>
    /\ oob = {}
    /\ ~(pc = "failed" /\ err # <<>> /\ err[1] = "bounds")
====
